---- MODULE Spec2Model ----
(***************************************************************************)
(* inf_to_json: the extraction / correlation / deduplication pipeline of   *)
(* src/reader.h and src/report.h, and the process boundary of src/main.cpp.*)
(*                                                                         *)
(* Text is a sequence of UTF-16 code units (wchar_t values), so that case  *)
(* folding, the dot composition of section names, hashing and the UTF-8    *)
(* conversion are computed, not assumed.                                   *)
(***************************************************************************)
EXTENDS Integers, Sequences, FiniteSets

\* ------------------------------------------------------------------ bounds

\* Device lines in the whole document (all models sections together).
MaxLines == 2
\* Lines of the [Manufacturer] section.
MaxMfg == 2

\* ------------------------------------------------------- exit_codes (main.cpp)

success == 0
invalid_arguments == 1
error == 2
unspecified_error == 3
out_of_memory == 4
\* The process has not returned yet.
Running == 0 - 1

\* ---------------------------------------------------------------- state

VARIABLES
    pc,             \* where main_with_code is
    argc,           \* the number of command-line arguments
    stdlib,         \* the standard library the program is built with
    inf,            \* the open document
    exc,            \* the exception in flight
    all_sections,   \* select_report_data: the section catalog
    manufacturers,  \* select_report_data: the range the outer loop walks
    mi,             \* the manufacturer the outer loop is at (0 before the first)
    gen,            \* the generator's position: the next candidate it examines
    correlation,    \* the pair the generator yielded last
    devices,        \* the vector the inner loop walks
    di,             \* the device the inner loop is at
    model_data,     \* the aggregation map, in its iteration order
    output,         \* the report under construction
    stdout,         \* what was written to std::cout
    stderr,         \* what was written to std::cerr
    exit_code,      \* the process exit status
    yielded,        \* history: the pairs yielded for this manufacturer
    visited,        \* history: the device lines aggregated for this manufacturer
    history,        \* history: yielded and visited of each finished manufacturer
    reads           \* history: the sections whose lines were read

vars == << pc, argc, stdlib, inf, exc, all_sections, manufacturers, mi, gen,
           correlation, devices, di, model_data, output, stdout, stderr,
           exit_code, yielded, visited, history, reads >>

\* ---------------------------------------------------------------- text

\* towlower on the code units the case-insensitive string types fold.
LowerUnit(c) == IF c >= 65 /\ c <= 90 THEN c + 32 ELSE c

Lower(s) == [i \in 1..Len(s) |-> LowerUnit(s[i])]

\* key_name: equality ignores letter case.
KeyNameEq(a, b) == Lower(a) = Lower(b)

\* section_name: equality ignores letter case.
SectionNameEq(a, b) == Lower(a) = Lower(b)

\* The UTF-8 bytes of one code unit, each unit encoded by itself: a
\* surrogate unit gives a three-byte sequence that is not well-formed UTF-8.
Utf8Unit(c) ==
    IF c < 128 THEN <<c>>
    ELSE IF c < 2048 THEN <<192 + (c \div 64), 128 + (c % 64)>>
    ELSE <<224 + (c \div 4096), 128 + ((c \div 64) % 64), 128 + (c % 64)>>

RECURSIVE to_utf8(_)
to_utf8(s) == IF s = <<>> THEN <<>> ELSE Utf8Unit(Head(s)) \o to_utf8(Tail(s))

\* ------------------------------------------------------------- size_t

\* A size_t is 64 bits wide: eight bytes, the least significant first.
\* Sums and products wrap modulo 2^64.

RECURSIVE SumOf(_)
SumOf(ns) == IF ns = <<>> THEN 0 ELSE Head(ns) + SumOf(Tail(ns))

\* The size_t of a small number (below 2^31).
U64(n) ==
    [i \in 1..8 |->
        IF i = 1 THEN n % 256
        ELSE IF i = 2 THEN (n \div 256) % 256
        ELSE IF i = 3 THEN (n \div 65536) % 256
        ELSE IF i = 4 THEN (n \div 16777216) % 256
        ELSE 0]

RECURSIVE AddFrom(_, _, _, _)
AddFrom(a, b, i, carry) ==
    IF i > 8 THEN <<>>
    ELSE LET t == a[i] + b[i] + carry
         IN  <<t % 256>> \o AddFrom(a, b, i + 1, t \div 256)

\* a + b
U64Add(a, b) == AddFrom(a, b, 1, 0)

RECURSIVE MulFrom(_, _, _, _)
MulFrom(a, b, i, carry) ==
    IF i > 8 THEN <<>>
    ELSE LET t == carry + SumOf([j \in 1..i |-> a[j] * b[i - j + 1]])
         IN  <<t % 256>> \o MulFrom(a, b, i + 1, t \div 256)

\* a * b
U64Mul(a, b) == MulFrom(a, b, 1, 0)

RECURSIVE ScaleFrom(_, _, _, _)
ScaleFrom(a, n, i, carry) ==
    IF i > 8 THEN <<>>
    ELSE LET t == a[i] * n + carry
         IN  <<t % 256>> \o ScaleFrom(a, n, i + 1, t \div 256)

\* a * n, for a small n (below 2^16)
U64Scale(a, n) == ScaleFrom(a, n, 1, 0)

RECURSIVE XorBits(_, _, _)
XorBits(x, y, n) ==
    IF n = 0 THEN 0
    ELSE ((x + y) % 2) + 2 * XorBits(x \div 2, y \div 2, n - 1)

\* a ^ b
U64Xor(a, b) == [i \in 1..8 |-> XorBits(a[i], b[i], 8)]

ByteAt(a, i) == IF i <= 8 THEN a[i] ELSE 0

\* a >> 47
U64Shr47(a) == [i \in 1..8 |-> (ByteAt(a, i + 5) \div 128) + 2 * (ByteAt(a, i + 6) % 128)]

RECURSIVE ModFrom(_, _, _, _)
ModFrom(a, n, i, r) == IF i = 0 THEN r ELSE ModFrom(a, n, i - 1, (r * 256 + a[i]) % n)

\* a % n, for a small n
U64Mod(a, n) == ModFrom(a, n, 8, 0)

\* ------------------------------------------- std::hash<std::wstring>

\* The bytes of a wide string whose wchar_t is `width` bytes, little-endian.
RECURSIVE WideBytes(_, _)
WideBytes(s, width) ==
    IF s = <<>> THEN <<>>
    ELSE [i \in 1..width |-> U64(Head(s))[i]] \o WideBytes(Tail(s), width)

\* Up to eight bytes loaded as a size_t.
LoadBytes(buf) == [i \in 1..8 |-> IF i <= Len(buf) THEN buf[i] ELSE 0]

\* libstdc++, _Hash_bytes: the multiplier 0xc6a4a7935bd1e995 and the seed
\* 0xc70f6907 std::hash passes.
MurmurMul == <<149, 233, 209, 91, 147, 167, 164, 198>>
MurmurSeed == <<7, 105, 15, 199, 0, 0, 0, 0>>

ShiftMix(v) == U64Xor(v, U64Shr47(v))

RECURSIVE MurmurBlocks(_, _)
MurmurBlocks(hash, buf) ==
    IF Len(buf) >= 8
    THEN LET data == U64Mul(ShiftMix(U64Mul(LoadBytes(SubSeq(buf, 1, 8)), MurmurMul)),
                            MurmurMul)
         IN  MurmurBlocks(U64Mul(U64Xor(hash, data), MurmurMul),
                          SubSeq(buf, 9, Len(buf)))
    ELSE IF Len(buf) > 0
         THEN U64Mul(U64Xor(hash, LoadBytes(buf)), MurmurMul)
         ELSE hash

\* libstdc++: std::_Hash_bytes(ptr, len, seed)
HashBytes(buf) ==
    LET hash == MurmurBlocks(U64Xor(MurmurSeed, U64Mul(U64(Len(buf)), MurmurMul)), buf)
    IN  ShiftMix(U64Mul(ShiftMix(hash), MurmurMul))

\* The Microsoft library, FNV-1a: the offset basis 14695981039346656037 and
\* the prime 1099511628211.
FnvOffsetBasis == <<37, 35, 34, 132, 228, 156, 242, 203>>
FnvPrime == <<179, 1, 0, 0, 0, 1, 0, 0>>

RECURSIVE Fnv1aAppendBytes(_, _)
Fnv1aAppendBytes(val, buf) ==
    IF buf = <<>> THEN val
    ELSE Fnv1aAppendBytes(U64Mul(U64Xor(val, U64(Head(buf))), FnvPrime), Tail(buf))

\* The hash of a wide string in each library: libstdc++ hashes its bytes with
\* _Hash_bytes, the Microsoft library with FNV-1a. The program is built for
\* Windows (wmain, SetupAPI), where wchar_t is two bytes in both.
LibraryHash(lib, s) ==
    IF lib = "msvc"
    THEN Fnv1aAppendBytes(FnvOffsetBasis, WideBytes(s, 2))
    ELSE HashBytes(WideBytes(s, 2))

\* ------------------------------------------------------------ the document

\* The texts of the documents: "D" "d" "E" descriptions, "H" "h" hardware
\* ids, "s" "t" install sections, "x" "y" architecture qualifiers.
TxtD == <<68>>
Txtd == <<100>>
TxtE == <<69>>
TxtH == <<72>>
Txth == <<104>>
Txts == <<115>>
Txtt == <<116>>
Txtx == <<120>>
Txty == <<121>>
\* A hardware id of one unpaired surrogate unit (0xD800).
TxtSurrogate == <<55296>>
\* "Ab": a manufacturer name that is also its models section.
TxtAb == <<65, 98>>
\* "aB": the same section name in another case.
TxtaB == <<97, 66>>
\* "M" followed by e-acute: a display name outside ASCII.
TxtMe == <<77, 233>>
\* "AB.X": the architecture-qualified section.
TxtABdotX == <<65, 66, 46, 88>>
\* "Manufacturer"
TxtManufacturer == <<77, 97, 110, 117, 102, 97, 99, 116, 117, 114, 101, 114>>

\* A line of a section: its key and its comma-separated fields.
Line(k, f) == [key |-> k, fields |-> f]

\* Device lines: D = s,H; d = t,H (same model, other case and install
\* section); D = s,h (other hardware id); D = s,H,<0xD800> (one more id, and
\* one that is not well-formed UTF-16); E = s (no hardware id); E = (no
\* field at all).
DeviceLines ==
    { Line(TxtD, <<Txts, TxtH>>),
      Line(Txtd, <<Txtt, TxtH>>),
      Line(TxtD, <<Txts, Txth>>),
      Line(TxtD, <<Txts, TxtH, TxtSurrogate>>),
      Line(TxtE, <<Txts>>),
      Line(TxtE, <<>>) }

\* Manufacturer lines: "Ab" alone (the section defaults to the name), and
\* Me = aB, y, x, x (a qualifier without a section, a qualifier given twice).
ManufacturerLines ==
    { Line(TxtAb, <<>>),
      Line(TxtMe, <<TxtaB, Txty, Txtx, Txtx>>) }

SeqsUpTo(S, n) == UNION { [1..k -> S] : k \in 0..n }

\* A section of a document is absent, or present with its lines.
SectionChoices(S, n) ==
    { [present |-> FALSE, lines |-> <<>>] }
        \cup { [present |-> TRUE, lines |-> ls] : ls \in SeqsUpTo(S, n) }

Sections(b, q) ==
    (IF b.present THEN { [name |-> TxtAb, lines |-> b.lines] } ELSE {})
        \cup (IF q.present THEN { [name |-> TxtABdotX, lines |-> q.lines] } ELSE {})

\* The models sections of a document: [Ab] and [AB.X], each absent or
\* present, MaxLines device lines between them.
ModelsSections ==
    { Sections(p[1], p[2]) :
        p \in { p \in SectionChoices(DeviceLines, MaxLines)
                        \X SectionChoices(DeviceLines, MaxLines) :
                    Len(p[1].lines) + Len(p[2].lines) <= MaxLines } }

Documents ==
    { [manufacturer |-> m, sections |-> s] :
        m \in SectionChoices(ManufacturerLines, MaxMfg), s \in ModelsSections }

NoDocument == [manufacturer |-> [present |-> FALSE, lines |-> <<>>], sections |-> {}]

\* --------------------------------------------- the document reader (inf_file)

\* inf_file::for_each_section: every section name of the document.
SectionNamesOf(d) ==
    { s.name : s \in d.sections }
        \cup (IF d.manufacturer.present THEN {TxtManufacturer} ELSE {})

\* Whether inf_file::for_each_line finds the section (names match ignoring case).
HasSection(d, name) == \E n \in SectionNamesOf(d) : SectionNameEq(n, name)

\* inf_file::for_each_line: the lines of the section, in file order.
LinesOf(d, name) ==
    IF SectionNameEq(name, TxtManufacturer)
    THEN d.manufacturer.lines
    ELSE (CHOOSE s \in d.sections : SectionNameEq(s.name, name)).lines

\* ------------------------------------------------------------- reader.h

\* One parsed line of [Manufacturer].
ParseManufacturer(l) ==
    [ name |-> l.key,
      models_section_name |-> IF Len(l.fields) > 0 THEN l.fields[1] ELSE l.key,
      architectures |->
          IF Len(l.fields) > 1 THEN SubSeq(l.fields, 2, Len(l.fields)) ELSE <<>> ]

\* extract_manufacturers: the parsed lines, in file order.
extract_manufacturers(d) ==
    LET ls == LinesOf(d, TxtManufacturer)
    IN  [i \in 1..Len(ls) |-> ParseManufacturer(ls[i])]

\* extract_sections: the set of section names. Names are kept as written;
\* membership is decided by section_name equality.
extract_sections(d) == SectionNamesOf(d)

\* The check a device line fails: no install-section field.
MissingInstallSection(l) == Len(l.fields) = 0

\* One parsed device line (a line that passed the check).
ParseDevice(l) ==
    [ device_description |-> l.key,
      install_section |-> l.fields[1],
      hardware_ids |->
          IF Len(l.fields) > 1 THEN SubSeq(l.fields, 2, Len(l.fields)) ELSE <<>> ]

WellFormed(l) == ~MissingInstallSection(l)

\* A parser that would skip a malformed line and go on.
SkipMalformedLines(d, name) ==
    LET ls == SelectSeq(LinesOf(d, name), WellFormed)
    IN  [threw |-> FALSE, result |-> [i \in 1..Len(ls) |-> ParseDevice(ls[i])]]

\* A parser that drops the lines that give no hardware id.
RequireHardwareId(d, name) ==
    LET ls == LinesOf(d, name)
        WithId(l) == Len(l.fields) > 1
        kept == SelectSeq(ls, WithId)
    IN  IF \E i \in 1..Len(ls) : MissingInstallSection(ls[i])
        THEN [threw |-> TRUE, result |-> <<>>]
        ELSE [threw |-> FALSE, result |-> [i \in 1..Len(kept) |-> ParseDevice(kept[i])]]

\* extract_device_descriptions: every line parsed, or the throw of the first
\* line without fields (the vector built so far is lost with it).
extract_device_descriptions(d, name) ==
    LET ls == LinesOf(d, name)
    IN  IF \E i \in 1..Len(ls) : MissingInstallSection(ls[i])
        THEN [threw |-> TRUE, result |-> <<>>]
        ELSE [threw |-> FALSE, result |-> [i \in 1..Len(ls) |-> ParseDevice(ls[i])]]

\* ------------------------------------------------------------- report.h

delimiter == 46

\* A lookup that compares section names code unit by code unit.
FindSectionExact(all, name) == { n \in all : n = name }

\* unordered_set<section_name>::find: the stored names equal to `name`
\* (none, or the one member, returned as stored).
FindSection(all, name) == { n \in all : SectionNameEq(n, name) }

\* The name composed without the dot.
ComposedNoDelimiter(m, p) ==
    IF p = 0 THEN m.models_section_name
    ELSE m.models_section_name \o m.architectures[p]

\* The section name the generator looks up at position p: the base section
\* at 0, base + '.' + qualifier p after it.
Composed(m, p) ==
    IF p = 0 THEN m.models_section_name
    ELSE m.models_section_name \o <<delimiter>> \o m.architectures[p]

\* The architecture a yield at position p carries.
ArchitectureAt(m, p) == IF p = 0 THEN <<>> ELSE m.architectures[p]

\* The positions from p on whose section exists.
Resolvable(m, all, p) ==
    { q \in p..Len(m.architectures) : FindSection(all, Composed(m, q)) # {} }

\* The least member of a non-empty set of positions.
Least(S) == CHOOSE q \in S : \A r \in S : q <= r

\* The pair co_yield-ed at position p.
Correlation(m, all, p) ==
    [ architecture |-> ArchitectureAt(m, p),
      models_section |-> CHOOSE n \in FindSection(all, Composed(m, p)) : TRUE ]

\* The texts the documents give a device line: descriptions, as written and
\* case-folded, and fields.
DeviceTexts ==
    UNION { {l.key, Lower(l.key)} \cup {l.fields[i] : i \in 1..Len(l.fields)} :
            l \in DeviceLines }

\* Their hashes in each library, computed once.
DeviceTextHashes ==
    [lib \in {"msvc", "libstdc++"} |-> [s \in DeviceTexts |-> LibraryHash(lib, s)]]

\* std::hash<std::wstring> of the library the program is built with,
\* case-sensitive.
HashWString(s) ==
    IF s \in DeviceTexts THEN DeviceTextHashes[stdlib][s] ELSE LibraryHash(stdlib, s)

\* std::hash<key_name>: the hash of the case-folded text, so that names that
\* compare equal hash equal.
HashKeyName(s) == HashWString(Lower(s))

\* model_key of a parsed device line.
ModelKey(dev) ==
    [description |-> dev.device_description, hardware_ids |-> dev.hardware_ids]

\* std::hash<model_key>: the description's hash folded with each id's.
RECURSIVE HashIds(_, _)
HashIds(result, ids) ==
    IF ids = <<>> THEN result
    ELSE HashIds(U64Add(U64Scale(result, 131), HashWString(Head(ids))), Tail(ids))

\* A hash that reads the description as written, case included.
HashCaseSensitive(key) == HashIds(HashWString(key.description), key.hardware_ids)

HashModelKey(key) == HashIds(HashKeyName(key.description), key.hardware_ids)

\* An equality that folds the case of the hardware ids too.
KeyEqFoldIds(l, r) ==
    /\ KeyNameEq(l.description, r.description)
    /\ Len(l.hardware_ids) = Len(r.hardware_ids)
    /\ \A i \in 1..Len(l.hardware_ids) :
          Lower(l.hardware_ids[i]) = Lower(r.hardware_ids[i])

\* operator==(model_key, model_key)
KeyEq(l, r) ==
    /\ KeyNameEq(l.description, r.description)
    /\ Len(l.hardware_ids) = Len(r.hardware_ids)
    /\ \A i \in 1..Len(l.hardware_ids) : l.hardware_ids[i] = r.hardware_ids[i]

\* --------------------------------------- std::unordered_map<model_key, ...>

\* The buckets of a map of fewer than nine elements: 8 in the Microsoft
\* library (never rehashed below nine elements), 13 in libstdc++ (from the
\* first insertion to the fourteenth).
BucketCount == IF stdlib = "msvc" THEN 8 ELSE 13

\* The key's bucket: the hash modulo the bucket count (the Microsoft library
\* masks with the count less one, the same residue for a power of two).
Bucket(key) == U64Mod(HashModelKey(key), BucketCount)

\* The entries of `md` in the bucket of `key`.
InBucket(md, key) == { i \in 1..Len(md) : Bucket(md[i].key) = Bucket(key) }

\* unordered_map::find: the position of the entry of the key's bucket whose
\* key compares equal, 0 for end().
MapFind(md, key) ==
    LET hits == { i \in InBucket(md, key) : KeyEq(md[i].key, key) }
    IN  IF hits = {} THEN 0 ELSE CHOOSE i \in hits : TRUE

InsertAt(md, i, e) == SubSeq(md, 1, i - 1) \o <<e>> \o SubSeq(md, i, Len(md))

\* A map that iterates in insertion order.
MapInsertOrdered(md, e) == Append(md, e)

\* unordered_map::insert of a key that is not in the map. Both libraries
\* link the node in front of the nodes of its bucket; into an empty bucket
\* the Microsoft library links it at the end of the element list and
\* libstdc++ at its beginning.
MapInsert(md, e) ==
    IF InBucket(md, e.key) # {}
    THEN InsertAt(md, Least(InBucket(md, e.key)), e)
    ELSE IF stdlib = "msvc" THEN Append(md, e) ELSE <<e>> \o md

\* An aggregator that records an architecture once per key.
AddArchitectureOnce(architectures, a) ==
    IF \E i \in 1..Len(architectures) : architectures[i] = a
    THEN architectures
    ELSE Append(architectures, a)

\* The map's value for a key that is found: the architecture appended.
AddArchitecture(architectures, a) == Append(architectures, a)

\* A map that outlives the manufacturer it was filled for.
KeptModelData == model_data

\* The map a manufacturer starts with.
NewModelData == <<>>

\* One pass of the inner loop's body on device `dev` under `architecture`.
Aggregated(md, dev, architecture) ==
    LET key == ModelKey(dev)
        found == MapFind(md, key)
    IN  IF found # 0
        THEN [md EXCEPT ![found].architectures =
                            AddArchitecture(md[found].architectures, architecture)]
        ELSE MapInsert(md, [key |-> key, architectures |-> <<architecture>>])

Utf8All(ss) == [i \in 1..Len(ss) |-> to_utf8(ss[i])]

\* The model built from one entry of the map.
ReportModel(entry) ==
    [ description |-> to_utf8(entry.key.description),
      hardware_ids |-> Utf8All(entry.key.hardware_ids),
      architectures |-> Utf8All(entry.architectures) ]

\* The manufacturer record: the map's entries in its iteration order.
ReportEntry(m, md) ==
    [ name |-> to_utf8(m.name),
      devices |-> [i \in 1..Len(md) |-> ReportModel(md[i])] ]

\* ------------------------------------------------------------- json.h

ModelToJson(m) ==
    [ description |-> m.description,
      hardware_ids |-> m.hardware_ids,
      architectures |-> m.architectures ]

ManufacturerToJson(m) ==
    [ name |-> m.name,
      devices |-> [i \in 1..Len(m.devices) |-> ModelToJson(m.devices[i])] ]

ReportToJson(r) == [i \in 1..Len(r) |-> ManufacturerToJson(r[i])]

\* dump checks every string it writes: well-formed UTF-8 only (no surrogate,
\* no overlong form, no truncated sequence, nothing above U+10FFFF).
RECURSIVE WellFormedUtf8(_)
WellFormedUtf8(b) ==
    IF b = <<>> THEN TRUE
    ELSE LET n == Len(b)
             c == b[1]
             Cont(i) == i <= n /\ b[i] \in 128..191
             Second(lo, hi) == n >= 2 /\ b[2] \in lo..hi
         IN  IF c < 128 THEN WellFormedUtf8(Tail(b))
             ELSE IF c \in 194..223
                  THEN Cont(2) /\ WellFormedUtf8(SubSeq(b, 3, n))
             ELSE IF c = 224
                  THEN Second(160, 191) /\ Cont(3) /\ WellFormedUtf8(SubSeq(b, 4, n))
             ELSE IF c \in (225..236) \cup (238..239)
                  THEN Cont(2) /\ Cont(3) /\ WellFormedUtf8(SubSeq(b, 4, n))
             ELSE IF c = 237
                  THEN Second(128, 159) /\ Cont(3) /\ WellFormedUtf8(SubSeq(b, 4, n))
             ELSE IF c = 240
                  THEN Second(144, 191) /\ Cont(3) /\ Cont(4)
                           /\ WellFormedUtf8(SubSeq(b, 5, n))
             ELSE IF c \in 241..243
                  THEN Cont(2) /\ Cont(3) /\ Cont(4) /\ WellFormedUtf8(SubSeq(b, 5, n))
             ELSE IF c = 244
                  THEN Second(128, 143) /\ Cont(3) /\ Cont(4)
                           /\ WellFormedUtf8(SubSeq(b, 5, n))
             ELSE FALSE

\* The strings of a serialized report.
JsonStrings(j) ==
    UNION { {j[k].name}
                \cup UNION { {j[k].devices[i].description}
                                 \cup {j[k].devices[i].hardware_ids[h] :
                                           h \in 1..Len(j[k].devices[i].hardware_ids)}
                                 \cup {j[k].devices[i].architectures[a] :
                                           a \in 1..Len(j[k].devices[i].architectures)} :
                             i \in 1..Len(j[k].devices) } :
            k \in 1..Len(j) }

\* nlohmann::json::dump succeeds; otherwise it throws type_error 316.
DumpSucceeds(j) == \A str \in JsonStrings(j) : WellFormedUtf8(str)

\* ------------------------------------------------------------- main.cpp

NoException == [type |-> "none", kind |-> "none"]

\* What constructing inf_file can throw: an allocation failure, a Win32
\* failure reported as a std::exception, or anything else.
OpenFailures ==
    { [type |-> "bad_alloc", kind |-> "ResourceExhaustionError"],
      [type |-> "std::exception", kind |-> "UnclassifiedError"],
      [type |-> "other", kind |-> "UnclassifiedError"] }

MissingSectionError == [type |-> "std::exception", kind |-> "MissingSectionError"]

MissingInstallSectionError ==
    [type |-> "std::exception", kind |-> "MissingInstallSectionError"]

\* What dump throws on a string that is not UTF-8: a std::exception, met
\* when a text cannot be written in the report's encoding.
JsonTypeError == [type |-> "std::exception", kind |-> "EncodingError"]

\* A handler list whose std::exception handler comes first.
ExitCodeExceptionFirst(type, payload_ok) ==
    IF type = "other" THEN unspecified_error
    ELSE IF payload_ok THEN error ELSE unspecified_error

\* The handlers of main_with_code, in order: bad_alloc, std::exception (whose
\* own payload may fail to be written), anything else.
ExitCodeFor(type, payload_ok) ==
    IF type = "bad_alloc" THEN out_of_memory
    ELSE IF type = "std::exception"
         THEN (IF payload_ok THEN error ELSE unspecified_error)
         ELSE unspecified_error

\* What the handlers write to std::cerr.
PayloadFor(type, payload_ok) ==
    IF type = "bad_alloc" THEN <<>>
    ELSE IF type = "std::exception"
         THEN (IF payload_ok THEN <<"error">> ELSE <<>>)
         ELSE <<"Unexpected error">>

Init ==
    /\ pc = "main"
    /\ argc \in {1, 2}
    /\ stdlib \in {"msvc", "libstdc++"}
    /\ inf = NoDocument
    /\ exc = NoException
    /\ all_sections = {}
    /\ manufacturers = <<>>
    /\ mi = 0
    /\ gen = 0
    /\ correlation = [architecture |-> <<>>, models_section |-> <<>>]
    /\ devices = <<>>
    /\ di = 0
    /\ model_data = <<>>
    /\ output = <<>>
    /\ stdout = <<>>
    /\ stderr = <<>>
    /\ exit_code = Running
    /\ yielded = <<>>
    /\ visited = <<>>
    /\ history = <<>>
    /\ reads = {}

\* main_with_code without a path argument.
Usage ==
    /\ pc = "main"
    /\ argc < 2
    /\ stderr' = <<"Usage">>
    /\ exit_code' = invalid_arguments
    /\ pc' = "done"
    /\ UNCHANGED << argc, stdlib, inf, exc, all_sections, manufacturers, mi, gen,
                    correlation, devices, di, model_data, output, stdout,
                    yielded, visited, history, reads >>

\* inf_file file(argv[1]): the document is open.
OpenFile ==
    /\ pc = "main"
    /\ argc >= 2
    /\ \E d \in Documents : inf' = d
    /\ pc' = "select"
    /\ UNCHANGED << argc, stdlib, exc, all_sections, manufacturers, mi, gen,
                    correlation, devices, di, model_data, output, stdout, stderr,
                    exit_code, yielded, visited, history, reads >>

\* inf_file file(argv[1]) throws.
OpenFileFails ==
    /\ pc = "main"
    /\ argc >= 2
    /\ \E e \in OpenFailures : exc' = e
    /\ pc' = "catch"
    /\ UNCHANGED << argc, stdlib, inf, all_sections, manufacturers, mi, gen,
                    correlation, devices, di, model_data, output, stdout, stderr,
                    exit_code, yielded, visited, history, reads >>

\* select_report_data: the catalog, then the manufacturers (or the throw of
\* a document without [Manufacturer]).
ExtractSectionsAndManufacturers ==
    /\ pc = "select"
    /\ all_sections' = extract_sections(inf)
    /\ reads' = reads \cup {TxtManufacturer}
    /\ IF HasSection(inf, TxtManufacturer)
       THEN /\ manufacturers' = extract_manufacturers(inf)
            /\ pc' = "loop"
            /\ exc' = exc
       ELSE /\ manufacturers' = manufacturers
            /\ pc' = "catch"
            /\ exc' = MissingSectionError
    /\ UNCHANGED << argc, stdlib, inf, mi, gen, correlation, devices, di,
                    model_data, output, stdout, stderr, exit_code, yielded,
                    visited, history >>

\* The outer loop takes the next manufacturer: a new map, a new generator.
NextManufacturer ==
    /\ pc = "loop"
    /\ mi < Len(manufacturers)
    /\ mi' = mi + 1
    /\ model_data' = NewModelData
    /\ gen' = 0
    /\ yielded' = <<>>
    /\ visited' = <<>>
    /\ pc' = "correlate"
    /\ UNCHANGED << argc, stdlib, inf, exc, all_sections, manufacturers,
                    correlation, devices, di, output, stdout, stderr, exit_code,
                    history, reads >>

\* The consumer resumes the generator: it runs to its next co_yield, or to
\* its end.
Resume ==
    /\ pc = "correlate"
    /\ LET m == manufacturers[mi]
           next == Resolvable(m, all_sections, gen)
       IN  IF next # {}
           THEN /\ correlation' = Correlation(m, all_sections, Least(next))
                /\ gen' = Least(next) + 1
                /\ yielded' = Append(yielded, correlation')
                /\ pc' = "devices"
           ELSE /\ correlation' = correlation
                /\ gen' = Len(m.architectures) + 1
                /\ yielded' = yielded
                /\ pc' = "flatten"
    /\ UNCHANGED << argc, stdlib, inf, exc, all_sections, manufacturers, mi,
                    devices, di, model_data, output, stdout, stderr, exit_code,
                    visited, history, reads >>

\* extract_device_descriptions of the yielded section.
ExtractDevices ==
    /\ pc = "devices"
    /\ reads' = reads \cup {correlation.models_section}
    /\ LET r == extract_device_descriptions(inf, correlation.models_section)
       IN  IF r.threw
           THEN /\ exc' = MissingInstallSectionError
                /\ pc' = "catch"
                /\ UNCHANGED << devices, di >>
           ELSE /\ devices' = r.result
                /\ di' = 1
                /\ pc' = IF r.result = <<>> THEN "correlate" ELSE "aggregate"
                /\ exc' = exc
    /\ UNCHANGED << argc, stdlib, inf, all_sections, manufacturers, mi, gen,
                    correlation, model_data, output, stdout, stderr, exit_code,
                    yielded, visited, history >>

\* The inner loop's body on one device.
Aggregate ==
    /\ pc = "aggregate"
    /\ di <= Len(devices)
    /\ model_data' = Aggregated(model_data, devices[di], correlation.architecture)
    /\ visited' = Append(visited, [architecture |-> correlation.architecture,
                                   device |-> devices[di]])
    /\ di' = di + 1
    /\ pc' = IF di = Len(devices) THEN "correlate" ELSE "aggregate"
    /\ UNCHANGED << argc, stdlib, inf, exc, all_sections, manufacturers, mi, gen,
                    correlation, devices, output, stdout, stderr, exit_code,
                    yielded, history, reads >>

\* The generator is exhausted: the map is flattened into the manufacturer's
\* record, which is appended to the report.
Flatten ==
    /\ pc = "flatten"
    /\ output' = Append(output, ReportEntry(manufacturers[mi], model_data))
    /\ history' = Append(history, [yielded |-> yielded, visited |-> visited])
    /\ pc' = "loop"
    /\ UNCHANGED << argc, stdlib, inf, exc, all_sections, manufacturers, mi, gen,
                    correlation, devices, di, model_data, stdout, stderr,
                    exit_code, yielded, visited, reads >>

\* select_report_data returns; the report is serialized to std::cout, or
\* the serialization throws and nothing is written.
Emit ==
    /\ pc = "loop"
    /\ mi = Len(manufacturers)
    /\ IF DumpSucceeds(ReportToJson(output))
       THEN /\ stdout' = Append(stdout, ReportToJson(output))
            /\ exit_code' = success
            /\ pc' = "done"
            /\ exc' = exc
       ELSE /\ exc' = JsonTypeError
            /\ pc' = "catch"
            /\ UNCHANGED << stdout, exit_code >>
    /\ UNCHANGED << argc, stdlib, inf, all_sections, manufacturers, mi, gen,
                    correlation, devices, di, model_data, output, stderr,
                    yielded, visited, history, reads >>

\* The exception reaches the handlers of main_with_code. The variables of
\* select_report_data keep the values they had at the throw; the objects are
\* destroyed by the unwinding and nothing reads them again.
Catch ==
    /\ pc = "catch"
    /\ \E payload_ok \in BOOLEAN :
          /\ exit_code' = ExitCodeFor(exc.type, payload_ok)
          /\ stderr' = PayloadFor(exc.type, payload_ok)
    /\ pc' = "done"
    /\ UNCHANGED << argc, stdlib, inf, exc, all_sections, manufacturers, mi, gen,
                    correlation, devices, di, model_data, output, stdout,
                    yielded, visited, history, reads >>

Next ==
    \/ Usage
    \/ OpenFile
    \/ OpenFileFails
    \/ ExtractSectionsAndManufacturers
    \/ NextManufacturer
    \/ Resume
    \/ ExtractDevices
    \/ Aggregate
    \/ Flatten
    \/ Emit
    \/ Catch

Spec == Init /\ [][Next]_vars

\* =================================================================== claims

\* What the claims speak of, stated on the document and on the output.

\* The base section a manufacturer line declares, and its qualifiers.
DeclaredBase(l) == IF l.fields = <<>> THEN l.key ELSE Head(l.fields)
DeclaredQualifiers(l) == IF l.fields = <<>> THEN <<>> ELSE Tail(l.fields)

\* [("", B), (q1, B.q1), ..., (qn, B.qn)] of a manufacturer line.
CandidatePairs(l) ==
    <<[architecture |-> <<>>, section |-> DeclaredBase(l)]>>
        \o [i \in 1..Len(DeclaredQualifiers(l)) |->
               [ architecture |-> DeclaredQualifiers(l)[i],
                 section |-> DeclaredBase(l) \o <<46>> \o DeclaredQualifiers(l)[i] ]]

\* The sections of the document named `name`, letter case ignored.
SectionsNamed(name) == { sec \in inf.sections : Lower(sec.name) = Lower(name) }

PairExists(pair) == SectionsNamed(pair.section) # {}

\* The candidate pairs of a line whose section exists, in declared order.
ExpectedPairs(l) == SelectSeq(CandidatePairs(l), PairExists)

\* The device lines of the sections that exist among the candidates of a
\* line, a section counted once per candidate that names it.
LinesBehind(pair) ==
    IF PairExists(pair)
    THEN Len((CHOOSE sec \in SectionsNamed(pair.section) : TRUE).lines)
    ELSE 0

ExpectedLineCount(l) ==
    SumOf([i \in 1..Len(CandidatePairs(l)) |-> LinesBehind(CandidatePairs(l)[i])])

\* Two device lines carry the same ModelKey.
SameModelKey(u, v) ==
    /\ Lower(u.device_description) = Lower(v.device_description)
    /\ u.hardware_ids = v.hardware_ids

\* Output model `dev` of manufacturer k is the model of visited line v: it
\* shows the description and hardware ids of a visited line of v's key.
IsModelOf(dev, k, v) ==
    \E j \in 1..Len(history[k].visited) :
        LET u == history[k].visited[j].device
        IN  /\ SameModelKey(u, v)
            /\ dev.description = to_utf8(u.device_description)
            /\ dev.hardware_ids = Utf8All(u.hardware_ids)

\* The visited lines of manufacturer k that output model `dev` stands for.
LinesOfModel(dev, k) ==
    { j \in 1..Len(history[k].visited) :
        IsModelOf(dev, k, history[k].visited[j].device) }

TotalArchitectures(devs) ==
    SumOf([i \in 1..Len(devs) |-> Len(devs[i].architectures)])

\* The manufacturers whose record is in the report. Records are appended by
\* Flatten alone and never changed, so the report is looked at where the
\* outer loop stands between two manufacturers and where the run has ended.
Finished == IF pc \in {"loop", "done"} THEN 1..Len(output) ELSE {}

\* C1: within one manufacturer, two device lines end up in the same output
\* model exactly when their descriptions are equal ignoring case and their
\* hardware-id sequences are equal element by element: every visited line
\* has exactly one model (so lines of equal keys share it and no two models
\* have equal keys), every model stands for some line, and a model holds one
\* architecture per line of its own key and none for a line of another key.
C1_MergeIffSameModelKey ==
    \A k \in Finished :
        LET devs == output[k].devices
            vis == history[k].visited
        IN  /\ \A j \in 1..Len(vis) :
                  Cardinality({ i \in 1..Len(devs) :
                                  IsModelOf(devs[i], k, vis[j].device) }) = 1
            /\ \A i \in 1..Len(devs) :
                  /\ LinesOfModel(devs[i], k) # {}
                  /\ Len(devs[i].architectures) =
                         Cardinality(LinesOfModel(devs[i], k))

\* C1 witness: a finished manufacturer where "D = s, H" of the base section
\* and "d = t, H" of the qualified section are one model.
C1_Witness ==
    \E k \in Finished :
        /\ Len(output[k].devices) = 1
        /\ \E a, b \in 1..Len(history[k].visited) :
              /\ history[k].visited[a].device.device_description = TxtD
              /\ history[k].visited[b].device.device_description = Txtd
              /\ history[k].visited[a].device.install_section
                     # history[k].visited[b].device.install_section
              /\ history[k].visited[a].architecture = <<>>
              /\ history[k].visited[b].architecture = Txtx

\* C2: the devices of every manufacturer are in first-discovery order of
\* their keys: of two models, the one whose first line was visited earlier
\* comes first.
C2_DevicesInDiscoveryOrder ==
    \A k \in Finished :
        LET devs == output[k].devices
            First(i) == Least(LinesOfModel(devs[i], k))
        IN  \A i, j \in 1..Len(devs) : i < j => First(i) < First(j)

\* C3: the architectures of every output model are, in discovery order, the
\* tags of the device lines that carried the model's key, one per line,
\* repeated tags kept.
C3_ArchitecturesPerLine ==
    \A k \in Finished :
        \A i \in 1..Len(output[k].devices) :
            LET dev == output[k].devices[i]
                Carries(v) == IsModelOf(dev, k, v.device)
                lines == SelectSeq(history[k].visited, Carries)
            IN  dev.architectures =
                    [j \in 1..Len(lines) |-> to_utf8(lines[j].architecture)]

\* C3 witness: a model whose architectures hold the same tag twice.
C3_Witness ==
    \E k \in Finished :
        \E i \in 1..Len(output[k].devices) :
            \E a, b \in 1..Len(output[k].devices[i].architectures) :
                /\ a < b
                /\ output[k].devices[i].architectures[a]
                       = output[k].devices[i].architectures[b]

\* The pairs the consumer received are the first pairs of `expected`, with
\* section names compared as SectionNames.
PairsMatch(got, expected) ==
    /\ Len(got) <= Len(expected)
    /\ \A i \in 1..Len(got) :
          /\ got[i].architecture = expected[i].architecture
          /\ Lower(got[i].models_section) = Lower(expected[i].section)

\* C4: for one manufacturer declaration the Correlator yields exactly the
\* candidates [("", B), (q1, B.q1), ..., (qn, B.qn)] whose section exists
\* (names compared ignoring case), in that order, one at a time: what the
\* consumer has received is always a prefix of that list, and the whole
\* list once the generator is exhausted.
C4_CorrelatorYieldsExisting ==
    /\ pc \in {"correlate", "devices", "aggregate", "flatten"} =>
          LET expected == ExpectedPairs(inf.manufacturer.lines[mi])
          IN  /\ PairsMatch(yielded, expected)
              /\ pc = "flatten" => Len(yielded) = Len(expected)
    /\ \A k \in Finished :
          LET expected == ExpectedPairs(inf.manufacturer.lines[k])
          IN  /\ PairsMatch(history[k].yielded, expected)
              /\ Len(history[k].yielded) = Len(expected)

\* C4 witness: the generator of "Me = aB, y, x, x" is exhausted after
\* yielding the base section and the qualified section twice, y skipped.
C4_Witness ==
    /\ pc = "flatten"
    /\ manufacturers[mi].architectures = <<Txty, Txtx, Txtx>>
    /\ yielded = << [architecture |-> <<>>, models_section |-> TxtAb],
                    [architecture |-> Txtx, models_section |-> TxtABdotX],
                    [architecture |-> Txtx, models_section |-> TxtABdotX] >>

\* Some section the Correlator resolves for some manufacturer line holds a
\* device line without fields.
MalformedLineCorrelated ==
    /\ inf.manufacturer.present
    /\ \E k \in 1..Len(inf.manufacturer.lines) :
          \E i \in 1..Len(CandidatePairs(inf.manufacturer.lines[k])) :
              \E sec \in SectionsNamed(CandidatePairs(inf.manufacturer.lines[k])[i].section) :
                  \E j \in 1..Len(sec.lines) : sec.lines[j].fields = <<>>

\* C5: a base or base.qualifier section that does not exist is skipped
\* without an error and without being read: a run on an opened document
\* with a manufacturer section and no malformed device line builds the
\* whole report whatever sections are missing, with a record for every
\* manufacturer, devices exactly when its existing sections hold device
\* lines (none when no section exists), and reads only existing sections;
\* the run succeeds and writes that report, unless a text of the report
\* cannot be serialized.
C5_SoftSectionResolution ==
    /\ \A name \in reads \ {TxtManufacturer} : SectionsNamed(name) # {}
    /\ (pc = "done" /\ inf.manufacturer.present /\ ~MalformedLineCorrelated) =>
          /\ exc \in {NoException, JsonTypeError}
          /\ (exc = NoException) <=> DumpSucceeds(ReportToJson(output))
          /\ exc = NoException =>
                /\ exit_code = success
                /\ stdout = <<ReportToJson(output)>>
          /\ Len(output) = Len(inf.manufacturer.lines)
          /\ \A k \in 1..Len(output) :
                /\ (output[k].devices = <<>>)
                      <=> (ExpectedLineCount(inf.manufacturer.lines[k]) = 0)
                /\ ExpectedPairs(inf.manufacturer.lines[k]) = <<>>
                      => output[k].devices = <<>>

\* C5 witness: qualifiers declared, no qualified section, the base section
\* with one device: the run succeeds with one model of architectures [""].
C5_Witness ==
    /\ pc = "done"
    /\ exit_code = success
    /\ \E k \in 1..Len(stdout[1]) :
          /\ DeclaredQualifiers(inf.manufacturer.lines[k]) # <<>>
          /\ SectionsNamed(TxtABdotX) = {}
          /\ Len(stdout[1][k].devices) = 1
          /\ stdout[1][k].devices[1].architectures = << <<>> >>

\* C6: the report has one record per line of the manufacturer section, in
\* line order: record k carries the name of line k and the devices of line
\* k's own sections only (as many architecture tags as those sections hold
\* device lines, none left over from another declaration), and two equal
\* declarations get equal records.
C6_OneRecordPerDeclaration ==
    /\ Len(output) <= Len(manufacturers)
    /\ pc \in {"correlate", "devices", "aggregate", "flatten"} => Len(output) = mi - 1
    /\ pc = "loop" => Len(output) = mi
    /\ \A k \in Finished :
          /\ output[k].name = to_utf8(inf.manufacturer.lines[k].key)
          /\ TotalArchitectures(output[k].devices)
                 = ExpectedLineCount(inf.manufacturer.lines[k])
          /\ \A j \in Finished :
                inf.manufacturer.lines[j] = inf.manufacturer.lines[k]
                    => output[j] = output[k]
    /\ (pc = "done" /\ exit_code = success) =>
          /\ Len(stdout[1]) = Len(inf.manufacturer.lines)
          /\ stdout[1] = output

\* C6 witness: a successful run on two equal declarations whose sections
\* hold devices.
C6_Witness ==
    /\ pc = "done"
    /\ exit_code = success
    /\ Len(stdout[1]) = 2
    /\ inf.manufacturer.lines[1] = inf.manufacturer.lines[2]
    /\ Len(stdout[1][1].devices) = 2
    /\ stdout[1][2] = stdout[1][1]

\* C7: a device line without fields in any section the Correlator resolves
\* for any manufacturer aborts the run with the missing-install-section
\* error and nothing is written to the output; and whatever is written to
\* the output is the complete report of a successful run.
C7_MalformedLineAborts ==
    /\ (pc = "done" /\ MalformedLineCorrelated) =>
          /\ exc = MissingInstallSectionError
          /\ exit_code \in {error, unspecified_error}
          /\ stdout = <<>>
    /\ stdout # <<>> =>
          /\ pc = "done"
          /\ exit_code = success
          /\ Len(stdout) = 1
          /\ Len(stdout[1]) = Len(inf.manufacturer.lines)

\* C7 witness: the run failed in the second manufacturer's second section,
\* with one record built and one model collected, and wrote no output.
C7_Witness ==
    /\ pc = "done"
    /\ exc = MissingInstallSectionError
    /\ mi = 2
    /\ Len(output) = 1
    /\ output[1].devices # <<>>
    /\ model_data # <<>>
    /\ stdout = <<>>

\* C8 (two runs on the same document write the same output) relates two
\* behaviours; it is not a property of one behaviour and is not stated here.
\* What one run writes is fixed by the document and by the library's bucket
\* order (stdlib), which no step of the pipeline draws at run time.

ErrorKinds ==
    { "MissingSectionError", "MissingInstallSectionError", "EncodingError",
      "ResourceExhaustionError", "UnclassifiedError" }

\* The exception types main_with_code tells apart, and the error kinds
\* thrown as each: the errors of the pipeline are all std::exception.
KindsOfType(type) ==
    IF type = "bad_alloc" THEN {"ResourceExhaustionError"}
    ELSE IF type = "std::exception"
         THEN { "MissingSectionError", "MissingInstallSectionError",
                "EncodingError", "UnclassifiedError" }
         ELSE {"UnclassifiedError"}

\* The exit codes a run that fails with `kind` can end with.
ExitCodesOfKind(kind) ==
    { ExitCodeFor(type, ok) :
        type \in { t \in {"bad_alloc", "std::exception", "other"} : kind \in KindsOfType(t) },
        ok \in BOOLEAN }

\* C9 as stated: every error kind has an exit status of its own, so the
\* exit status of a failed run is one no other kind ends with, and it is
\* never the success code.
C9_DistinctExitPerKind ==
    (pc = "done" /\ exc # NoException) =>
        /\ exit_code # success
        /\ \A kind \in ErrorKinds \ {exc.kind} : exit_code \notin ExitCodesOfKind(kind)

\* C9 amended: a failed run never ends with the success code; the exit
\* status tells three classes apart, not five kinds: out_of_memory exactly
\* for an allocation failure, error for every std::exception (a missing
\* manufacturer section and a missing install section alike) or
\* unspecified_error when its payload cannot be written, unspecified_error
\* for anything else.
C9_ExitCodeByExceptionClass ==
    /\ (pc = "done" /\ exc # NoException) =>
          /\ exit_code \notin {success, Running}
          /\ (exit_code = out_of_memory) <=> (exc.type = "bad_alloc")
          /\ exc.type = "std::exception" => exit_code \in {error, unspecified_error}
          /\ exc.type = "other" => exit_code = unspecified_error
          /\ exit_code = error => stderr = <<"error">>
    /\ (pc = "done" /\ exit_code = success) => exc = NoException

\* C9 witness: a run that failed on a missing install section ended with
\* the exit code a missing manufacturer section ends with.
C9_Witness ==
    /\ pc = "done"
    /\ exc = MissingInstallSectionError
    /\ exit_code = error
    /\ error \in ExitCodesOfKind("MissingSectionError")

\* C10: for every finished manufacturer the architecture tags of its models
\* are as many as the device lines of the sections the Correlator yielded
\* for it (a section counted once per yield), which are the lines visited;
\* a line with the install section only is kept, with no hardware id.
C10_DeviceLinesConserved ==
    \A k \in Finished :
        LET yields == history[k].yielded
            read == SumOf([i \in 1..Len(yields) |->
                              Len((CHOOSE sec \in SectionsNamed(yields[i].models_section) :
                                      TRUE).lines)])
        IN  /\ TotalArchitectures(output[k].devices) = read
            /\ Len(history[k].visited) = read

\* C10 witness: two lines that give the install section only are one
\* model with no hardware id and two architectures.
C10_Witness ==
    \E k \in Finished :
        \E i \in 1..Len(output[k].devices) :
            /\ output[k].devices[i].hardware_ids = <<>>
            /\ Len(output[k].devices[i].architectures) = 2
            /\ Len(history[k].visited) = 2

====
